---- MODULE Spec2Model ----
(***************************************************************************)
(* Model of the Loki push client of alex-cos/logx: the io.Writer entry     *)
(* point (Write), the bounded channel between producers and the single     *)
(* aggregator goroutine (run), the retrying sender (sendBatch / send) and  *)
(* the shutdown handle (stop), and the constructor with its options        *)
(* (NewLokiClient).  The repository carries two near-duplicate             *)
(* implementations; `variant` selects which one a behaviour follows.       *)
(* Durations are in milliseconds.                                          *)
(***************************************************************************)
EXTENDS Integers, Sequences, FiniteSets, TLC

VARIABLES
    variant,      \* "auth": first implementation (jitter, auth); "plain": second
    batchSize,    \* LokiClient.batchSize
    bufferSize,   \* cap(LokiClient.buffer)
    c,            \* the other fields of LokiClient set by the options
    opts,         \* the opts argument of NewLokiClient
    applied,      \* options NewLokiClient has applied so far
    rchan,        \* channel the goroutine of run receives from (-1: none)
    buffer,       \* contents of the channel LokiClient.buffer
    closed,       \* the channel has been closed
    closes,       \* number of close(c.buffer) executions
    panicked,     \* a panic has escaped a goroutine (the process is gone)
    once,         \* LokiClient.once: [done, holder]
    wg,           \* LokiClient.wg counter
    pc,           \* position of each producer inside Write
    entry,        \* the normalised entry a producer is trying to send
    inlen,        \* len(input) of the Write call in progress
    ret,          \* result of the Write call that returned last: [n, err]
    calls,        \* number of Write calls started
    spc,          \* position of each shutdown caller inside stop
    wpc,          \* position of the aggregator goroutine
    batch,        \* local variable batch of run
    cause,        \* call site in run of the latest sendBatch call
    i,            \* loop index of sendBatch
    err,          \* local variable err of sendBatch
    sleep,        \* local variable sleep of sendBatch (last backoff)
    tries,        \* calls of send made by the sendBatch in progress
    stderr,       \* lines written to os.Stderr, counted per kind
    posts,        \* number of send attempts made so far
    inflight,     \* HTTP exchanges started and not yet ended
    req,          \* the request built by the latest call of send
    handed,       \* entries of the batches given to send, batch after batch
    accepted      \* entries in the order they entered the channel

vars == <<variant, batchSize, bufferSize, c, opts, applied, rchan,
          buffer, closed, closes, panicked, once, wg,
          pc, entry, inlen, ret, calls, spc, wpc, batch, cause,
          i, err, sleep, tries, stderr, posts, inflight, req, handed,
          accepted>>

prodVars == <<pc, entry, inlen, ret, calls>>
stopVars == <<spc, once, closes>>
sendVars == <<cause, i, err, sleep, tries, posts, inflight, req, handed>>
confVars == <<variant, batchSize, bufferSize, c, opts, applied, rchan>>

----------------------------------------------------------------------------
(* Bounds of the model *)

MaxWrites     == 2
MaxBatchSize  == 2
MaxBufferSize == 2
MaxOpts       == 2

Producers == {"p1", "p2"}
Stoppers  == {"s1", "s2"}
None      == "none"

----------------------------------------------------------------------------
(* Program constants *)

MaxAttempts   == 3
JitterRange   == 400
SecondMs      == 1000
NanosPerMilli == 1000000

DefaultBatchSize    == 100
DefaultBufferSize   == 1000
DefaultWriteTimeout == 100
DefaultSendTimeout  == 5000
DefaultPeriod       == 15000
BatchSizeLimit      == 1000

----------------------------------------------------------------------------
(* Raw records.  A JSON value is [kind, s, n]; a raw input is its length,  *)
(* whether it is well-formed JSON and the object it denotes.               *)

Str(s)  == [kind |-> "string", s |-> s, n |-> 0]
Num(n)  == [kind |-> "number", s |-> "", n |-> n]

\* strings that match DateTimeFormatMilli, with the instant they denote (ms)
DateTimeFormatMilli ==
    [t \in {"1970-01-01T00:00:00.001Z", "1970-01-01T00:00:00.002Z"} |->
        IF t = "1970-01-01T00:00:00.001Z" THEN 1 ELSE 2]

Obj1 == [k \in {"time", "msg"} |->
            IF k = "time" THEN Str("1970-01-01T00:00:00.001Z") ELSE Str("a")]
Obj2 == [k \in {"time", "msg", "service", "code"} |->
            CASE k = "time"    -> Str("1970-01-01T00:00:00.002Z")
              [] k = "msg"     -> Str("b")
              [] k = "service" -> Str("svc")
              [] k = "code"    -> Num(42)]
ObjNoTime  == [k \in {"msg"} |-> Str("a")]
ObjNumTime == [k \in {"time", "msg"} |->
                 IF k = "time" THEN Num(1) ELSE Str("a")]
ObjBadTime == [k \in {"time", "msg"} |->
                 IF k = "time" THEN Str("1970-01-01 00:00:00") ELSE Str("a")]
ObjNoMsg   == [k \in {"time", "code"} |->
                 IF k = "time" THEN Str("1970-01-01T00:00:00.001Z") ELSE Num(42)]
ObjNumMsg  == [k \in {"time", "msg"} |->
                 IF k = "time" THEN Str("1970-01-01T00:00:00.001Z") ELSE Num(7)]

ValidInputs ==
    { [len |-> 11, json |-> TRUE, obj |-> Obj1],
      [len |-> 12, json |-> TRUE, obj |-> Obj2] }
MalformedInputs ==
    { [len |-> 13, json |-> FALSE, obj |-> Obj1],
      [len |-> 14, json |-> TRUE,  obj |-> ObjNoTime],
      [len |-> 15, json |-> TRUE,  obj |-> ObjNumTime],
      [len |-> 16, json |-> TRUE,  obj |-> ObjBadTime],
      [len |-> 17, json |-> TRUE,  obj |-> ObjNoMsg],
      [len |-> 18, json |-> TRUE,  obj |-> ObjNumMsg] }
Inputs == ValidInputs \cup MalformedInputs

----------------------------------------------------------------------------
(* Write: parsing and normalisation *)

\* fmt.Sprintf("%v", v) of a decoded JSON number
Sprintv(v) == IF v.kind = "string" THEN v.s ELSE ToString(v.n)

\* delete(values, k)
Delete(values, k) == [x \in DOMAIN values \ {k} |-> values[x]]

\* the loop that turns every non-string value into its %v rendering
Coerce(values) == [k \in DOMAIN values |-> Str(Sprintv(values[k]))]

\* Normalize without the type check of msg
Normalize_NoMsgType(input) ==
    LET values == input.obj
        fail(e) == [err |-> e, entry |-> <<>>]
    IN  IF ~input.json                       THEN fail("unmarshal")
        ELSE IF "time" \notin DOMAIN values  THEN fail("missing time parameter")
        ELSE IF values["time"].kind # "string" THEN fail("wrong time format")
        ELSE IF values["time"].s \notin DOMAIN DateTimeFormatMilli
                                             THEN fail("parse")
        ELSE IF "msg" \notin DOMAIN values   THEN fail("missing msg parameter")
        ELSE [err |-> "nil",
              entry |-> << ToString(DateTimeFormatMilli[values["time"].s]
                                      * NanosPerMilli),
                           Sprintv(values["msg"]),
                           Coerce(Delete(Delete(Delete(values, "time"),
                                                "msg"), "service")) >>]

\* Result of Write up to the select statement: the error it returns, or the
\* entry it is about to send.
Normalize(input) ==
    LET values == input.obj
        fail(e) == [err |-> e, entry |-> <<>>]
    IN  IF ~input.json                       THEN fail("unmarshal")
        ELSE IF "time" \notin DOMAIN values  THEN fail("missing time parameter")
        ELSE IF values["time"].kind # "string" THEN fail("wrong time format")
        ELSE IF values["time"].s \notin DOMAIN DateTimeFormatMilli
                                             THEN fail("parse")
        ELSE IF "msg" \notin DOMAIN values   THEN fail("missing msg parameter")
        ELSE IF values["msg"].kind # "string" THEN fail("wrong msg format")
        ELSE [err |-> "nil",
              entry |-> << ToString(DateTimeFormatMilli[values["time"].s]
                                      * NanosPerMilli),
                           values["msg"].s,
                           Coerce(Delete(Delete(Delete(values, "time"),
                                                "msg"), "service")) >>]

Result(n, e) == [n |-> n, err |-> e]
NoResult == Result(-1, None)   \* no Write call has returned yet

----------------------------------------------------------------------------
(* Options.  An option value is [name, b, s1, s2, n, m]: the constructor   *)
(* called and its arguments (b bool, s1 and s2 strings, n a size or a      *)
(* duration, m a label map).  Each With... operator is the closure the     *)
(* constructor returns, as a function of the client it is applied to.      *)

NoLabels == [k \in {} |-> ""]

Option(name, b, s1, s2, n, m) ==
    [name |-> name, b |-> b, s1 |-> s1, s2 |-> s2, n |-> n, m |-> m]

LabelMaps ==
    { [k \in {"app", "job"} |-> IF k = "app" THEN "a" ELSE "j"],
      [k \in {"app", "env"} |-> IF k = "app" THEN "b" ELSE "e"] }

\* the options a caller of the implementation v can pass
Options(v) ==
    {Option("WithLabels", FALSE, "", "", 0, m) : m \in LabelMaps}
    \cup {Option("WithHttpClient", FALSE, h, "", 0, NoLabels) :
            h \in {"nil", "custom"}}
    \cup {Option("WithBatchSize", FALSE, "", "", n, NoLabels) :
            n \in {0, 1, BatchSizeLimit - 1, BatchSizeLimit}}
    \cup {Option(name, FALSE, "", "", d, NoLabels) :
            name \in {"WithPeriod", "WithWriteTimeout", "WithSendTimeout"},
            d \in {0, 7}}
    \cup {Option("WithBufferSize", FALSE, "", "", n, NoLabels) :
            n \in {0, MaxBufferSize}}
    \cup IF v = "plain" THEN {}
         ELSE {Option("WithHTTPS", b, "", "", 0, NoLabels) : b \in BOOLEAN}
              \cup {Option("WithBasicAuth", FALSE, up[1], up[2], 0, NoLabels) :
                      up \in {<<"u", "p">>, <<"u", "">>, <<"", "">>}}
              \cup {Option("WithBearerToken", FALSE, t, "", 0, NoLabels) :
                      t \in {"t", ""}}

WithHTTPS(b, cl) == [cl EXCEPT !.useHTTPS = b]

WithBasicAuth(username, password, cl) ==
    [cl EXCEPT !.username = username, !.password = password]

WithBearerToken(token, cl) == [cl EXCEPT !.bearer = token]

WithLabels(labels, cl) ==
    [cl EXCEPT !.labels =
        [k \in DOMAIN cl.labels \cup DOMAIN labels |->
            IF k \in DOMAIN labels THEN labels[k] ELSE cl.labels[k]]]

WithHttpClient(httpClient, cl) ==
    IF httpClient # "nil" THEN [cl EXCEPT !.httpClient = httpClient] ELSE cl

\* WithBatchSize without its test of the size
WithBatchSize_Unchecked(size, cur) == size

\* the batch size after WithBatchSize(size) on a client whose batch size
\* is cur
WithBatchSize(size, cur) ==
    IF size > 0 /\ (variant = "auth" => size < BatchSizeLimit)
      THEN size
      ELSE cur

WithPeriod(d, cl) == IF d > 0 THEN [cl EXCEPT !.period = d] ELSE cl

WithWriteTimeout(d, cl) ==
    IF d > 0 THEN [cl EXCEPT !.writeTimeout = d] ELSE cl

WithSendTimeout(d, cl) ==
    IF d > 0 THEN [cl EXCEPT !.sendTimeout = d] ELSE cl

\* make(chan []any, size) yields a channel no one else holds: the channels
\* made are numbered, 0 is the one made by NewLokiClient
WithBufferSize(size, cl) ==
    IF size > 0 THEN [cl EXCEPT !.chan = @ + 1] ELSE cl

\* o(c) for the fields held in the record c
Apply(o, cl) ==
    CASE o.name = "WithHTTPS"        -> WithHTTPS(o.b, cl)
      [] o.name = "WithBasicAuth"    -> WithBasicAuth(o.s1, o.s2, cl)
      [] o.name = "WithBearerToken"  -> WithBearerToken(o.s1, cl)
      [] o.name = "WithLabels"       -> WithLabels(o.m, cl)
      [] o.name = "WithHttpClient"   -> WithHttpClient(o.s1, cl)
      [] o.name = "WithPeriod"       -> WithPeriod(o.n, cl)
      [] o.name = "WithWriteTimeout" -> WithWriteTimeout(o.n, cl)
      [] o.name = "WithSendTimeout"  -> WithSendTimeout(o.n, cl)
      [] o.name = "WithBufferSize"   -> WithBufferSize(o.n, cl)
      [] OTHER                       -> cl

\* the literal &LokiClient{...} of NewLokiClient
Defaults ==
    [useHTTPS |-> FALSE, username |-> "", password |-> "", bearer |-> "",
     httpClient |-> "default", labels |-> NoLabels,
     writeTimeout |-> DefaultWriteTimeout, sendTimeout |-> DefaultSendTimeout,
     period |-> DefaultPeriod, chan |-> 0]

NoHeader == [k \in {} |-> <<>>]
NoRequest == [scheme |-> None, header |-> NoHeader]

----------------------------------------------------------------------------
\* what NewLokiClient leaves at their zero value, and the goroutines that
\* do not exist yet
Zero ==
    /\ buffer = <<>>
    /\ closed = FALSE
    /\ closes = 0
    /\ panicked = FALSE
    /\ once = [done |-> FALSE, holder |-> None]
    /\ pc = [p \in Producers |-> "idle"]
    /\ entry = [p \in Producers |-> <<>>]
    /\ inlen = [p \in Producers |-> 0]
    /\ ret = NoResult
    /\ calls = 0
    /\ spc = [s \in Stoppers |-> "idle"]
    /\ batch = <<>>
    /\ cause = None
    /\ i = 0
    /\ err = "nil"
    /\ sleep = 0
    /\ tries = 0
    /\ stderr = [drop |-> 0, fail |-> 0]
    /\ posts = 0
    /\ inflight = 0
    /\ req = NoRequest
    /\ handed = <<>>
    /\ accepted = <<>>

\* The client returned by NewLokiClient(host, port, WithBatchSize(b),
\* WithBufferSize(s)), for either implementation, with the smallest and the
\* largest batch size and channel capacity of the bounds.
Init ==
    /\ variant \in {"auth", "plain"}
    /\ batchSize \in {1, MaxBatchSize}
    /\ bufferSize \in {1, MaxBufferSize}
    /\ c = [Defaults EXCEPT !.chan = 1]
    /\ opts = << Option("WithBatchSize", FALSE, "", "", batchSize, NoLabels),
                 Option("WithBufferSize", FALSE, "", "", bufferSize, NoLabels) >>
    /\ applied = 2
    /\ rchan = 1
    /\ wg = 1
    /\ wpc = "select"
    /\ Zero

----------------------------------------------------------------------------
(* Write: the select statement.  writeTimeout is positive, so on reaching  *)
(* the select the timer has not fired: a send that can proceed (or panic)  *)
(* does so, otherwise the producer blocks until the first of: room in the  *)
(* channel, close of the channel, the timer.                               *)

Return(p, r) ==
    /\ ret' = r
    /\ pc' = [pc EXCEPT ![p] = "idle"]
    /\ entry' = [entry EXCEPT ![p] = <<>>]
    /\ inlen' = [inlen EXCEPT ![p] = 0]

\* ChanSend putting the entry at the head of the channel
ChanSend_Front(p, e, n) ==
    /\ buffer' = <<e>> \o buffer
    /\ accepted' = Append(accepted, e)
    /\ Return(p, Result(n, "nil"))
    /\ UNCHANGED <<stderr, panicked>>

\* case c.buffer <- []any{...}:
ChanSend(p, e, n) ==
    /\ buffer' = Append(buffer, e)
    /\ accepted' = Append(accepted, e)
    /\ Return(p, Result(n, "nil"))
    /\ UNCHANGED <<stderr, panicked>>

\* Write without the deferred recover: the panic of the send escapes
ChanPanic_Unrecovered(p) ==
    /\ panicked' = TRUE
    /\ Return(p, NoResult)
    /\ UNCHANGED <<buffer, accepted, stderr>>

\* a recover that reports the entry as dropped
ChanPanic_Logged(p) ==
    /\ stderr' = [stderr EXCEPT !.drop = @ + 1]
    /\ Return(p, Result(0, "nil"))
    /\ UNCHANGED <<buffer, accepted, panicked>>

\* send on a closed channel panics; the deferred recover() swallows the
\* panic and Write returns the zero values of its results
ChanPanic(p) ==
    /\ Return(p, Result(0, "nil"))
    /\ UNCHANGED <<buffer, accepted, stderr, panicked>>

\* ChanTimeout that reports the drop to the caller instead of stderr
ChanTimeout_Surfaced(p, n) ==
    /\ Return(p, Result(0, "buffer is full"))
    /\ UNCHANGED <<buffer, accepted, stderr, panicked>>

\* case <-time.After(c.writeTimeout):
ChanTimeout(p, n) ==
    /\ stderr' = [stderr EXCEPT !.drop = @ + 1]
    /\ Return(p, Result(n, "nil"))
    /\ UNCHANGED <<buffer, accepted, panicked>>

Write(p, input) ==
    /\ pc[p] = "idle"
    /\ calls < MaxWrites
    /\ calls' = calls + 1
    /\ LET r == Normalize(input)
       IN  IF r.err # "nil"
             THEN /\ Return(p, Result(0, r.err))
                  /\ UNCHANGED <<buffer, accepted, stderr, panicked>>
           ELSE IF closed
             THEN ChanPanic(p)
           ELSE IF Len(buffer) < bufferSize
             THEN ChanSend(p, r.entry, input.len)
           ELSE /\ pc' = [pc EXCEPT ![p] = "select"]
                /\ entry' = [entry EXCEPT ![p] = r.entry]
                /\ inlen' = [inlen EXCEPT ![p] = input.len]
                /\ UNCHANGED <<ret, buffer, accepted, stderr, panicked>>
    /\ UNCHANGED <<confVars, closed, stopVars, wg, wpc, batch, sendVars>>

WriteSend(p) ==
    /\ pc[p] = "select"
    /\ ~closed
    /\ Len(buffer) < bufferSize
    /\ ChanSend(p, entry[p], inlen[p])
    /\ UNCHANGED <<confVars, closed, stopVars, wg, wpc, batch, sendVars,
                   calls>>

WritePanic(p) ==
    /\ pc[p] = "select"
    /\ closed
    /\ ChanPanic(p)
    /\ UNCHANGED <<confVars, closed, stopVars, wg, wpc, batch, sendVars,
                   calls>>

\* Write with a plain blocking send: the timer case never fires
WriteTimeout_Never(p) ==
    /\ pc[p] = "select"
    /\ FALSE
    /\ UNCHANGED vars

WriteTimeout(p) ==
    /\ pc[p] = "select"
    /\ ~closed
    /\ Len(buffer) = bufferSize
    /\ ChanTimeout(p, inlen[p])
    /\ UNCHANGED <<confVars, closed, stopVars, wg, wpc, batch, sendVars,
                   calls>>

----------------------------------------------------------------------------
(* stop *)

\* StopCall without the Once: every caller closes the channel
StopCall_NoOnce(s) ==
    /\ spc[s] \in {"idle", "returned"}
    /\ spc' = [spc EXCEPT ![s] = IF variant = "plain" THEN "grace" ELSE "close"]
    /\ UNCHANGED <<confVars, panicked, buffer, closed, closes, once, wg, prodVars, wpc,
                   batch, sendVars, stderr, accepted>>

\* c.once.Do(f): the first caller runs f, a caller that arrives while f runs
\* waits for it to finish, a later caller skips f
StopCall(s) ==
    /\ spc[s] \in {"idle", "returned"}
    /\ IF once.done
         THEN /\ spc' = [spc EXCEPT ![s] = "wait"]
              /\ UNCHANGED once
       ELSE IF once.holder = None
         THEN /\ once' = [once EXCEPT !.holder = s]
              /\ spc' = [spc EXCEPT ![s] =
                            IF variant = "plain" THEN "grace" ELSE "close"]
       ELSE /\ spc' = [spc EXCEPT ![s] = "once"]
            /\ UNCHANGED once
    /\ UNCHANGED <<confVars, panicked, buffer, closed, closes, wg, prodVars, wpc,
                   batch, sendVars, stderr, accepted>>

\* a caller blocked in once.Do resumes when f has finished
OnceDo(s) ==
    /\ spc[s] = "once"
    /\ once.done
    /\ spc' = [spc EXCEPT ![s] = "wait"]
    /\ UNCHANGED <<confVars, panicked, buffer, closed, closes, once, wg, prodVars, wpc,
                   batch, sendVars, stderr, accepted>>

\* time.Sleep(500 * time.Millisecond) of the second implementation
StopGrace(s) ==
    /\ spc[s] = "grace"
    /\ spc' = [spc EXCEPT ![s] = "close"]
    /\ UNCHANGED <<confVars, panicked, buffer, closed, closes, once, wg, prodVars, wpc,
                   batch, sendVars, stderr, accepted>>

\* close(c.buffer), then Do marks the Once done
StopClose(s) ==
    /\ spc[s] = "close"
    /\ closed' = TRUE
    /\ closes' = closes + 1
    /\ panicked' = (panicked \/ closed)   \* close of a closed channel panics
    /\ once' = [done |-> TRUE, holder |-> None]
    /\ spc' = [spc EXCEPT ![s] = "wait"]
    /\ UNCHANGED <<confVars, buffer, wg, prodVars, wpc, batch, sendVars,
                   stderr, accepted>>

\* c.wg.Wait()
StopWait(s) ==
    /\ spc[s] = "wait"
    /\ wg = 0
    /\ spc' = [spc EXCEPT ![s] = "returned"]
    /\ UNCHANGED <<confVars, panicked, buffer, closed, closes, once, wg, prodVars, wpc,
                   batch, sendVars, stderr, accepted>>

----------------------------------------------------------------------------
(* send: the outcome of one HTTP exchange *)

Responses ==
    {[transport |-> TRUE, status |-> 0]} \cup
    {[transport |-> FALSE, status |-> code] : code \in {199, 200, 299, 300, 500}}

\* send that takes every status below 400 for a success
send_Below400(resp) ==
    IF resp.transport THEN "error"
    ELSE IF resp.status \div 100 >= 4 THEN "error"
    ELSE "nil"

\* error returned by send for a response of the endpoint
send(resp) ==
    IF resp.transport THEN "error"
    ELSE IF resp.status \div 100 # 2 THEN "error"
    ELSE "nil"

\* http.Header.Set(key, value): the values of key become the one value
Set(header, key, value) ==
    [k \in DOMAIN header \cup {key} |->
        IF k = key THEN <<value>> ELSE header[k]]

\* req.SetBasicAuth: Header.Set of the credentials (their encoding is
\* one-to-one and left out)
SetBasicAuth(header, username, password) ==
    Set(header, "Authorization", "Basic " \o username \o ":" \o password)

\* the request send builds for the client cl: the scheme of its URL and its
\* header (the second implementation has neither HTTPS nor authentication)
NewRequest(cl) ==
    LET h0 == NoHeader
        h1 == IF variant = "auth" /\ cl.username # "" /\ cl.password # ""
                THEN SetBasicAuth(h0, cl.username, cl.password)
                ELSE h0
        h2 == IF variant = "auth" /\ cl.bearer # ""
                THEN Set(h1, "Authorization", "Bearer " \o cl.bearer)
                ELSE h1
        h3 == Set(h2, "Content-Type", "application/json")
        h4 == Set(h3, "User-Agent", "GoLokiClient")
    IN  [scheme |-> IF variant = "auth" /\ cl.useHTTPS THEN "https" ELSE "http",
         header |-> h4]

\* rand.Intn(n) yields a value of 0..n-1; the ends and the middle stand for
\* the range
Intn(n) == {0, n \div 2, n - 1}

\* Backoff that takes the loop index for the number of seconds
Backoff_ZeroBased(idx) ==
    IF variant = "auth"
      THEN {SecondMs * idx + j : j \in Intn(JitterRange)}
      ELSE {SecondMs * idx}

\* the sleep after failed attempt number idx (0-based)
Backoff(idx) ==
    IF variant = "auth"
      THEN {SecondMs * (idx + 1) + j : j \in Intn(JitterRange)}
      ELSE {SecondMs * (idx + 1)}

----------------------------------------------------------------------------
(* run and sendBatch *)

\* Finish that leaves the batch as it is
Finish_KeepBatch(site) ==
    /\ i' = 0
    /\ err' = "nil"
    /\ sleep' = 0
    /\ tries' = 0
    /\ UNCHANGED batch
    /\ IF site = "close"
         THEN wg' = wg - 1 /\ wpc' = "done"
         ELSE wpc' = "select" /\ UNCHANGED wg

\* sendBatch returns to its call site in run
Finish(site) ==
    /\ i' = 0
    /\ err' = "nil"
    /\ sleep' = 0
    /\ tries' = 0
    /\ IF site = "close"
         THEN /\ wg' = wg - 1          \* return; deferred c.wg.Done()
              /\ wpc' = "done"
              /\ UNCHANGED batch
         ELSE /\ batch' = <<>>         \* batch = batch[:0]
              /\ wpc' = "select"
              /\ UNCHANGED wg

\* sendBatch without the test for an empty batch
sendBatch_NoEmptyCheck(b, site) ==
    /\ wpc' = "send"
    /\ cause' = site
    /\ i' = 0
    /\ err' = "nil"
    /\ sleep' = 0
    /\ tries' = 0
    /\ handed' = handed \o b
    /\ batch' = b
    /\ UNCHANGED <<posts, inflight, req, wg, stderr>>

\* c.sendBatch(b) called from `site`: nothing happens for an empty batch,
\* otherwise the retry loop starts
sendBatch(b, site) ==
    IF Len(b) = 0
      THEN /\ cause' = site
           /\ Finish(site)
           /\ UNCHANGED <<posts, inflight, req, handed, stderr>>
      ELSE /\ wpc' = "send"
           /\ cause' = site
           /\ i' = 0
           /\ err' = "nil"
           /\ sleep' = 0
           /\ tries' = 0
           /\ handed' = handed \o b
           /\ batch' = b
           /\ UNCHANGED <<posts, inflight, req, wg, stderr>>

\* RunRecv that flushes only when the batch exceeds batchSize
RunRecv_Late ==
    /\ wpc = "select"
    /\ buffer # <<>>
    /\ buffer' = Tail(buffer)
    /\ LET b == Append(batch, Head(buffer))
       IN  IF Len(b) > batchSize
             THEN sendBatch(b, "size")
             ELSE /\ batch' = b
                  /\ UNCHANGED <<wpc, wg, sendVars, stderr>>
    /\ UNCHANGED <<confVars, panicked, closed, stopVars, prodVars, accepted>>

\* RunRecv that compares with the default threshold, not with c.batchSize
RunRecv_Default ==
    /\ wpc = "select"
    /\ buffer # <<>>
    /\ buffer' = Tail(buffer)
    /\ LET b == Append(batch, Head(buffer))
       IN  IF Len(b) >= DefaultBatchSize
             THEN sendBatch(b, "size")
             ELSE /\ batch' = b
                  /\ UNCHANGED <<wpc, wg, sendVars, stderr>>
    /\ UNCHANGED <<confVars, panicked, closed, stopVars, prodVars, accepted>>

\* case e, ok := <-c.buffer with ok
RunRecv ==
    /\ wpc = "select"
    /\ buffer # <<>>
    /\ buffer' = Tail(buffer)
    /\ LET b == Append(batch, Head(buffer))
       IN  IF Len(b) >= batchSize
             THEN sendBatch(b, "size")
             ELSE /\ batch' = b
                  /\ UNCHANGED <<wpc, wg, sendVars, stderr>>
    /\ UNCHANGED <<confVars, panicked, closed, stopVars, prodVars, accepted>>

\* RunClosed that returns without the final flush
RunClosed_NoFlush ==
    /\ wpc = "select"
    /\ buffer = <<>>
    /\ closed
    /\ cause' = "close"
    /\ Finish("close")
    /\ UNCHANGED <<posts, inflight, req, handed, stderr>>
    /\ UNCHANGED <<confVars, panicked, buffer, closed, stopVars, prodVars, accepted>>

\* RunClosed whose return leaves the select only, not the loop
RunClosed_Break ==
    /\ wpc = "select"
    /\ buffer = <<>>
    /\ closed
    /\ sendBatch(batch, "tick")
    /\ UNCHANGED <<confVars, panicked, buffer, closed, stopVars, prodVars, accepted>>

\* case e, ok := <-c.buffer with !ok: the channel is closed and drained
RunClosed ==
    /\ wpc = "select"
    /\ buffer = <<>>
    /\ closed
    /\ sendBatch(batch, "close")
    /\ UNCHANGED <<confVars, panicked, buffer, closed, stopVars, prodVars, accepted>>

\* RunTick that resets the batch without sending it
RunTick_Discard ==
    /\ wpc = "select"
    /\ cause' = "tick"
    /\ Finish("tick")
    /\ UNCHANGED <<posts, inflight, req, handed, stderr>>
    /\ UNCHANGED <<confVars, panicked, buffer, closed, stopVars, prodVars, accepted>>

\* case <-waitCheck.C: the ticker may have put a tick in its channel at any
\* time since the last one was taken
RunTick ==
    /\ wpc = "select"
    /\ sendBatch(batch, "tick")
    /\ UNCHANGED <<confVars, panicked, buffer, closed, stopVars, prodVars, accepted>>

\* a flush that does not wait for the exchange it started
SendStart_Async ==
    /\ wpc = "send"
    /\ posts' = posts + 1
    /\ inflight' = inflight + 1
    /\ req' = NewRequest(c)
    /\ Finish(cause)
    /\ UNCHANGED <<confVars, panicked, buffer, closed, stopVars, prodVars,
                   cause, handed, stderr, accepted>>

\* c.send(...) builds the request and calls c.httpClient.Do(req): the
\* exchange is in flight until Do returns
SendStart ==
    /\ wpc = "send"
    /\ wpc' = "post"
    /\ posts' = posts + 1
    /\ inflight' = inflight + 1
    /\ req' = NewRequest(c)
    /\ UNCHANGED <<confVars, panicked, buffer, closed, stopVars, prodVars, wg,
                   batch, cause, i, err, sleep, tries, handed, stderr,
                   accepted>>

\* Send that skips the sleep after the last attempt
Send_NoLastSleep(resp) ==
    /\ wpc = "post"
    /\ inflight' = inflight - 1
    /\ LET e == send(resp)
       IN  IF e = "nil"
             THEN /\ Finish(cause)
                  /\ UNCHANGED <<cause, stderr>>
           ELSE IF i + 1 < MaxAttempts
             THEN /\ err' = e
                  /\ sleep' \in Backoff(i)
                  /\ tries' = tries + 1
                  /\ wpc' = "backoff"
                  /\ UNCHANGED <<cause, i, batch, wg, stderr>>
           ELSE /\ stderr' = [stderr EXCEPT !.fail = @ + 1]
                /\ Finish(cause)
                /\ UNCHANGED cause
    /\ UNCHANGED <<confVars, panicked, buffer, closed, stopVars, prodVars,
                   posts, req, handed, accepted>>

\* Do returns (a response, or an error such as the deadline of sendTimeout):
\* the rest of the iteration of the loop of sendBatch, up to the sleep
Send(resp) ==
    /\ wpc = "post"
    /\ inflight' = inflight - 1
    /\ LET e == send(resp)
       IN  IF e = "nil"
             THEN /\ Finish(cause)
                  /\ UNCHANGED <<cause, stderr>>
             ELSE /\ err' = e
                  /\ sleep' \in Backoff(i)
                  /\ tries' = tries + 1
                  /\ wpc' = "backoff"
                  /\ UNCHANGED <<cause, i, batch, wg, stderr>>
    /\ UNCHANGED <<confVars, panicked, buffer, closed, stopVars, prodVars,
                   posts, req, handed, accepted>>

\* Wake that gives the batch up without reporting the error
Wake_Silent ==
    /\ wpc = "backoff"
    /\ IF i + 1 < MaxAttempts
         THEN /\ i' = i + 1
              /\ wpc' = "send"
              /\ UNCHANGED <<cause, err, sleep, tries, batch, wg, stderr>>
         ELSE /\ Finish(cause)
              /\ UNCHANGED <<cause, stderr>>
    /\ UNCHANGED <<confVars, panicked, buffer, closed, stopVars, prodVars, posts, inflight, req,
                   handed, accepted>>

\* Wake that reports the error of every failed attempt
Wake_Verbose ==
    /\ wpc = "backoff"
    /\ stderr' = [stderr EXCEPT !.fail = @ + 1]
    /\ IF i + 1 < MaxAttempts
         THEN /\ i' = i + 1
              /\ wpc' = "send"
              /\ UNCHANGED <<cause, err, sleep, tries, batch, wg>>
         ELSE /\ Finish(cause)
              /\ UNCHANGED cause
    /\ UNCHANGED <<confVars, panicked, buffer, closed, stopVars, prodVars, posts, inflight, req,
                   handed, accepted>>

\* the sleep ends: next iteration, or the loop is over and the error is
\* reported
Wake ==
    /\ wpc = "backoff"
    /\ IF i + 1 < MaxAttempts
         THEN /\ i' = i + 1
              /\ wpc' = "send"
              /\ UNCHANGED <<cause, err, sleep, tries, batch, wg, stderr>>
         ELSE /\ stderr' = IF err # "nil"
                             THEN [stderr EXCEPT !.fail = @ + 1]
                             ELSE stderr
              /\ Finish(cause)
              /\ UNCHANGED cause
    /\ UNCHANGED <<confVars, panicked, buffer, closed, stopVars, prodVars, posts, inflight, req,
                   handed, accepted>>

----------------------------------------------------------------------------
Next ==
    \/ \E p \in Producers, input \in Inputs : Write(p, input)
    \/ \E p \in Producers : WriteSend(p)
    \/ \E p \in Producers : WritePanic(p)
    \/ \E p \in Producers : WriteTimeout(p)
    \/ \E s \in Stoppers : StopCall(s)
    \/ \E s \in Stoppers : OnceDo(s)
    \/ \E s \in Stoppers : StopGrace(s)
    \/ \E s \in Stoppers : StopClose(s)
    \/ \E s \in Stoppers : StopWait(s)
    \/ RunRecv
    \/ RunClosed
    \/ RunTick
    \/ SendStart
    \/ \E resp \in Responses : Send(resp)
    \/ Wake

Spec == Init /\ [][Next]_vars

----------------------------------------------------------------------------
(* NewLokiClient *)

\* the lists of options of at most MaxOpts elements
OptLists(v) == UNION {[1..n -> Options(v)] : n \in 0..MaxOpts}

\* NewLokiClient(host, port, opts...) has built the literal
InitNew ==
    /\ variant \in {"auth", "plain"}
    /\ opts \in OptLists(variant)
    /\ applied = 0
    /\ batchSize = DefaultBatchSize
    /\ bufferSize = DefaultBufferSize
    /\ c = Defaults
    /\ rchan = -1
    /\ wg = 0
    /\ wpc = "new"
    /\ Zero

\* the loop over opts taken from its last element
ApplyOpt_Reverse ==
    /\ wpc = "new"
    /\ applied < Len(opts)
    /\ LET o == opts[Len(opts) - applied]
       IN  /\ batchSize' = IF o.name = "WithBatchSize"
                              THEN WithBatchSize(o.n, batchSize)
                              ELSE batchSize
           /\ bufferSize' = IF o.name = "WithBufferSize" /\ o.n > 0
                               THEN o.n
                               ELSE bufferSize
           /\ c' = Apply(o, c)
    /\ applied' = applied + 1
    /\ UNCHANGED <<variant, opts, rchan, buffer, closed, panicked, stopVars,
                   prodVars, wg, wpc, batch, sendVars, stderr, accepted>>

\* one iteration of `for _, o := range opts { o(c) }`
ApplyOpt ==
    /\ wpc = "new"
    /\ applied < Len(opts)
    /\ LET o == opts[applied + 1]
       IN  /\ batchSize' = IF o.name = "WithBatchSize"
                              THEN WithBatchSize(o.n, batchSize)
                              ELSE batchSize
           /\ bufferSize' = IF o.name = "WithBufferSize" /\ o.n > 0
                               THEN o.n
                               ELSE bufferSize
           /\ c' = Apply(o, c)
    /\ applied' = applied + 1
    /\ UNCHANGED <<variant, opts, rchan, buffer, closed, panicked, stopVars,
                   prodVars, wg, wpc, batch, sendVars, stderr, accepted>>

\* c.wg.Add(1); go c.run(): the goroutine receives from the channel that
\* c.buffer holds
Start ==
    /\ wpc = "new"
    /\ applied = Len(opts)
    /\ wg' = 1
    /\ wpc' = "select"
    /\ rchan' = c.chan
    /\ UNCHANGED <<variant, batchSize, bufferSize, c, opts, applied, buffer,
                   closed, panicked, stopVars, prodVars, batch, sendVars,
                   stderr, accepted>>

\* Construction, then the first Write of one producer up to the first request
NextNew ==
    \/ ApplyOpt
    \/ Start
    \/ \E input \in ValidInputs :
          wpc # "new" /\ calls = 0 /\ Write("p1", input)
    \/ RunRecv
    \/ RunTick
    \/ SendStart

SpecNew == InitNew /\ [][NextNew]_vars

\* A producer blocked in the select of Write is resumed by the runtime when
\* one of its cases is ready; the timer of time.After fires after
\* writeTimeout whatever the other goroutines do.
WriteStep(p) == WriteSend(p) \/ WritePanic(p) \/ WriteTimeout(p)

\* Producers are scheduled; nothing is assumed of the aggregator or of stop.
SpecProducers == Spec /\ \A p \in Producers : WF_vars(WriteStep(p))

\* The steps of the goroutine of run other than the tick: a receive that is
\* ready is taken, an exchange ends (by its response or by the deadline of
\* sendTimeout at the latest) and a sleep ends.
RunStep ==
    RunRecv \/ RunClosed \/ SendStart \/ (\E resp \in Responses : Send(resp)) \/ Wake

\* The steps of a caller of stop after its call
StopStep(s) == OnceDo(s) \/ StopGrace(s) \/ StopClose(s) \/ StopWait(s)

\* The goroutine of run and the callers of stop are scheduled and the ticker
\* keeps firing; nothing is assumed of the producers.
SpecFair ==
    /\ Spec
    /\ WF_vars(RunStep)
    /\ WF_vars(RunTick)
    /\ \A s \in Stoppers : WF_vars(StopStep(s))

----------------------------------------------------------------------------
(* Helpers of the properties *)

\* entries the aggregator has taken from the channel and not yet given to send
Pending == IF wpc = "select" THEN batch ELSE <<>>

\* number of occurrences of e in the sequence q
Count(q, e) == Cardinality({k \in 1..Len(q) : q[k] = e})

Sending == wpc \in {"send", "post", "backoff"}

\* the largest element of a non-empty set of numbers
Last(S) == CHOOSE k \in S : \A j \in S : j <= k

\* the positions, among the first n of opts, of the options of the given
\* constructor that are in the set V
Taken(name, V, n) ==
    {k \in 1..n : opts[k].name = name /\ opts[k] \in V}

\* the argument `field` of the last option of Taken(name, V, n), or default
LastOf(name, V, field, n, default) ==
    IF Taken(name, V, n) = {}
      THEN default
      ELSE opts[Last(Taken(name, V, n))][field]

\* the values of the Authorization header of the latest request
Authorization ==
    IF "Authorization" \in DOMAIN req.header
      THEN req.header["Authorization"]
      ELSE <<>>

----------------------------------------------------------------------------
\* C1: a producer that waits on a full, open channel and whose wait ends while
\* the channel is still full is served by the timeout case: the channel and
\* the accepted entries are unchanged, exactly one drop line and no other line
\* goes to stderr, and Write returns (len(input), nil).
C1_DropOnFull ==
    [][\A p \in Producers :
          (/\ pc[p] = "select"
           /\ ~closed
           /\ Len(buffer) = bufferSize
           /\ pc'[p] = "idle")
          => /\ buffer' = buffer
             /\ accepted' = accepted
             /\ stderr' = [stderr EXCEPT !.drop = @ + 1]
             /\ ret' = Result(inlen[p], "nil")
             /\ inlen[p] \in {x.len : x \in ValidInputs}]_vars

\* a Write was dropped: one drop line, the channel still full, success returned
C1_Witness ==
    /\ stderr.drop = 1
    /\ Len(buffer) = bufferSize
    /\ ret \in {Result(x.len, "nil") : x \in ValidInputs}
    /\ \A p \in Producers : pc[p] = "idle"

\* C2: a Write of any malformed record (not JSON, no time, time not a string,
\* time not in the millisecond format, no msg, msg not a string) returns an
\* error and leaves the channel as it was: nothing is queued.
C2_MalformedRejected ==
    [][\A p \in Producers, input \in MalformedInputs :
          (calls' = calls + 1 /\ Write(p, input))
          => /\ ret'.err \notin {"nil", None}
             /\ ret'.n = 0
             /\ buffer' = buffer
             /\ accepted' = accepted
             /\ pc'[p] = "idle"]_vars

\* a malformed record was written while an entry sat in the channel
C2_Witness ==
    /\ ret.err = "wrong msg format"
    /\ Len(buffer) = 1
    /\ Len(accepted) = 1

\* C3: when a stop call has returned, every entry that entered the channel has
\* been given to send in a batch, and the channel is empty.
C3_DrainOnShutdown ==
    (\E s \in Stoppers : spc[s] = "returned")
        => /\ handed = accepted
           /\ buffer = <<>>
           /\ wpc = "done"

\* stop has returned after entries were flushed by the final flush
C3_Witness ==
    /\ \E s \in Stoppers : spc[s] = "returned"
    /\ cause = "close"
    /\ Len(accepted) = 2
    /\ handed = accepted
    /\ posts > 0

\* C4: however many stop calls are made, in sequence or concurrently, the
\* channel is closed once; a stop call returns only when the aggregator has
\* terminated, and no send attempt is made after a stop call has returned.
C4_StopIdempotent ==
    [][/\ closes' <= 1
       /\ \A s \in Stoppers :
             spc'[s] = "returned" => (wpc' = "done" /\ wg' = 0 /\ closes' = 1)
       /\ (\E s \in Stoppers : spc[s] = "returned")
             => (posts' = posts /\ wpc' = "done")]_vars

\* both callers have returned from stop, one of them through the Once it did
\* not run itself
C4_Witness ==
    /\ \A s \in Stoppers : spc[s] = "returned"
    /\ closes = 1
    /\ posts > 0

\* C5: a sendBatch whose attempts all fail ends after exactly 3 calls of send,
\* writes exactly one failure line, and its batch is dropped: the aggregator
\* goes on with an empty batch (or terminates) and nothing is given to send
\* again.
C5_ExhaustedBatchDiscarded ==
    [][(wpc = "backoff" /\ wpc' \notin {"backoff", "send"})
          => /\ tries = 3
             /\ err # "nil"
             /\ stderr' = [stderr EXCEPT !.fail = @ + 1]
             /\ posts' = posts
             /\ handed' = handed
             /\ \/ wpc' = "select" /\ batch' = <<>>
                \/ wpc' = "done" /\ cause = "close"
             /\ Len(handed) + Len(buffer) = Len(accepted)]_vars

\* a batch was given up and a later batch was flushed after it
C5_Witness ==
    /\ stderr.fail = 1
    /\ posts > 3
    /\ Len(handed) = 2
    /\ wpc = "select"
    /\ batch = <<>>

\* C6: the sleep that follows failed attempt number k (k = i + 1) lies in
\* [k, k + 0.4) seconds, the sleeps of one sendBatch do not decrease, and a
\* third attempt that succeeds after two failures ends the sendBatch without a
\* failure line.
C6_BackoffWindow ==
    [][/\ wpc' = "backoff"
          => /\ tries' = i' + 1
             /\ sleep' >= SecondMs * (i' + 1)
             /\ sleep' < SecondMs * (i' + 1) + 400
       /\ (wpc = "post" /\ wpc' = "backoff") => sleep' >= sleep
       /\ (wpc = "post" /\ tries = 2 /\ wpc' \notin {"post", "backoff"})
          => /\ i = 2
             /\ posts' = posts
             /\ stderr' = stderr
             /\ handed' = handed]_vars

\* the third attempt has just succeeded after two failed ones:
\* three posts, one batch, no failure line
C6_Witness ==
    /\ posts = 3
    /\ Len(handed) = 1
    /\ stderr.fail = 0
    /\ wpc = "select"
    /\ cause = "size"
    /\ variant = "auth"

\* C7: when the aggregator takes the entry that brings the batch to batchSize
\* entries, it starts one flush of exactly those entries; while the flush runs
\* it takes nothing from the channel, and it resumes with an empty batch.
C7_SizeFlush ==
    [][/\ (wpc = "select" /\ Len(buffer') < Len(buffer)
              /\ Len(batch) + 1 = batchSize)
          => /\ wpc' = "send"
             /\ cause' = "size"
             /\ batch' = Append(batch, Head(buffer))
             /\ Len(batch') = batchSize
             /\ handed' = handed \o batch'
       /\ Sending
          => /\ Len(buffer') >= Len(buffer)
             /\ handed' = handed
             /\ wpc' = "select" => batch' = <<>>]_vars

\* a size flush of two entries is running while the next entry waits in the
\* channel
C7_Witness ==
    /\ wpc = "send"
    /\ cause = "size"
    /\ batchSize = 2
    /\ Len(batch) = 2
    /\ batch[1] # batch[2]

\* C8: when the timer fires or the channel is found closed while the batch is
\* empty, the aggregator makes no send attempt, does not sleep and writes no
\* failure line; a send attempt is only ever in progress for a non-empty batch.
C8_EmptyFlushNoop ==
    [][/\ (wpc = "select" /\ batch = <<>> /\ Len(buffer') >= Len(buffer))
          => /\ wpc' \in {"select", "done"}
             /\ posts' = posts
             /\ stderr.fail' = stderr.fail
             /\ sleep' = 0
             /\ handed' = handed
       /\ Sending' => batch' # <<>>]_vars

\* the timer has fired on an empty batch and nothing was sent
C8_Witness ==
    /\ cause = "tick"
    /\ wpc = "select"
    /\ handed = <<>>
    /\ posts = 0
    /\ stderr.fail = 0

\* C9: the entries given to send, batch after batch, followed by the entries
\* the aggregator holds and by the content of the channel, are the accepted
\* entries in the order in which they entered the channel.
C9_FifoOrder ==
    handed \o Pending \o buffer = accepted

\* two distinct entries were sent in two batches, in the order of their
\* acceptance
C9_Witness ==
    /\ Len(handed) = 2
    /\ handed[1] # handed[2]
    /\ batchSize = 1
    /\ handed = accepted
    /\ posts >= 2

\* C10: every accepted entry is in exactly one place (a batch given to send,
\* the batch in progress or the channel), as it was accepted; a step that
\* gives a batch to send gives the batch in progress, and the aggregator
\* resumes after a flush, successful or not, with an empty batch.
C10_ExactlyOnce ==
    [][/\ \A e \in {accepted'[k] : k \in 1..Len(accepted')} :
             Count(handed', e) + Count(Pending', e) + Count(buffer', e)
                = Count(accepted', e)
       /\ handed' # handed
          => /\ handed' = handed \o batch'
             /\ batch' = SubSeq(accepted', Len(handed) + 1, Len(handed'))
       /\ (Sending /\ wpc' = "select") => batch' = <<>>
       /\ (Sending /\ wpc' = "done") => cause = "close"]_vars

\* the same record was accepted twice and each copy was sent once, one of them
\* in a batch that was given up
C10_Witness ==
    /\ Len(accepted) = 2
    /\ accepted[1] = accepted[2]
    /\ handed = accepted
    /\ stderr.fail = 1
    /\ wpc = "select"
    /\ batch = <<>>

\* C11: every Write call returns: a producer that blocks in the select leaves
\* it (by sending, by the timeout, or by the recovered panic), whatever the
\* aggregator does, also when it never takes anything from the channel.
C11_WriteReturns ==
    \A p \in Producers : (pc[p] = "select") ~> (pc[p] = "idle")

\* a Write has returned by dropping while the aggregator had taken nothing
\* from the full channel
C11_Witness ==
    /\ stderr.drop = 1
    /\ \A p \in Producers : pc[p] = "idle"
    /\ Len(buffer) = bufferSize
    /\ wpc = "select"
    /\ batch = <<>>
    /\ handed = <<>>

\* C12: no panic escapes a goroutine of the client: not from a Write (valid or
\* malformed, before, during or after shutdown), not from a stop call
\* (repeated or concurrent), not from the aggregator.
C12_NoPanic ==
    /\ ~panicked
    /\ closes <= 1
    /\ wg \in {0, 1}

\* a Write of a valid record found the channel closed (its send panicked and
\* the panic was recovered), after both stop callers had returned
C12_Witness ==
    /\ closed
    /\ ret = Result(0, "nil")
    /\ \A s \in Stoppers : spc[s] = "returned"
    /\ ~panicked

\* C15: at most one HTTP exchange is in flight, and only inside sendBatch;
\* from the start of a flush to its end the aggregator takes nothing from the
\* channel, keeps the batch as it is and starts no other flush: the channel
\* changes only by producers appending to it.
C15_Serialized ==
    [][/\ inflight' \in {0, 1}
       /\ (inflight' = 1) <=> (wpc' = "post")
       /\ Sending
          => /\ buffer' # buffer
                => /\ Len(buffer') = Len(buffer) + 1
                   /\ SubSeq(buffer', 1, Len(buffer)) = buffer
                   /\ accepted' = Append(accepted, buffer'[Len(buffer')])
             /\ handed' = handed
             /\ Sending' => batch' = batch]_vars

\* a producer has put an entry in the channel while an exchange for an
\* earlier batch is in flight
C15_Witness ==
    /\ inflight = 1
    /\ wpc = "post"
    /\ Len(batch) = 1
    /\ Len(buffer) = 1
    /\ accepted = batch \o buffer

\* C16: once stop has closed the channel, the aggregator reaches its
\* terminated state and the stop call that waits for it returns, whatever
\* the endpoint answers.
C16_ShutdownTerminates ==
    /\ closed ~> (wpc = "done" /\ wg = 0)
    /\ \A s \in Stoppers :
          (closed /\ spc[s] = "wait") ~> (wg = 0 /\ spc[s] = "returned")

\* stop has returned after a final flush whose three attempts all failed
C16_Witness ==
    /\ wpc = "done"
    /\ cause = "close"
    /\ stderr.fail = 1
    /\ posts = MaxAttempts
    /\ \E s \in Stoppers : spc[s] = "returned"

\* C17: a tick taken with k entries in the batch (0 < k < batchSize) hands
\* exactly those k entries to sendBatch as one batch, and the batch is empty
\* when the aggregator is back in its select; so, with the ticker firing,
\* every entry taken from the channel is eventually handed to sendBatch.
C17_TickFlush ==
    /\ [][/\ (wpc = "select" /\ wpc' = "send" /\ cause' = "tick")
             => /\ 0 < Len(batch) /\ Len(batch) < batchSize
                /\ buffer' = buffer
                /\ batch' = batch
                /\ handed' = handed \o batch
          /\ (Sending /\ cause = "tick" /\ wpc' = "select")
             => batch' = <<>>]_vars
    /\ \A n \in 1..MaxWrites :
          (Len(handed) + Len(Pending) >= n) ~> (Len(handed) >= n)

\* the single entry of a batch of size 2 is being sent after a tick
C17_Witness ==
    /\ batchSize = 2
    /\ cause = "tick"
    /\ wpc = "post"
    /\ Len(batch) = 1
    /\ handed = batch
    /\ ~closed

C19_SuccessIs2xx ==
    [][\A resp \in Responses :
          Send(resp)
          => IF ~resp.transport /\ resp.status >= 200 /\ resp.status <= 299
               THEN /\ ~Sending'
                    /\ tries' = 0
                    /\ stderr' = stderr
               ELSE /\ wpc' = "backoff"
                    /\ tries' = tries + 1
                    /\ tries' <= MaxAttempts
                    /\ batch' = batch]_vars

\* two attempts of the first batch have failed
C19_Witness ==
    /\ wpc = "backoff"
    /\ tries = 2
    /\ posts = 2
    /\ i = 1
    /\ batch # <<>>
    /\ handed = batch

\* C13: a request carries at most one Authorization header: the Basic one
\* when user and password are both non-empty (also with a bearer token
\* configured), the Bearer one when only the token is configured, none when
\* neither is.
C13_BasicPrecedence ==
    req # NoRequest
    => LET basic == c.username # "" /\ c.password # ""
       IN  /\ Len(Authorization) <= 1
           /\ basic
              => Authorization =
                   <<"Basic " \o c.username \o ":" \o c.password>>
           /\ (~basic /\ c.bearer # "")
              => Authorization = <<"Bearer " \o c.bearer>>
           /\ (~basic /\ c.bearer = "") => Authorization = <<>>

\* C14 as stated: after construction the threshold is the n of the last
\* WithBatchSize(n) with n > 0, or 100 without one, and a size flush sends
\* exactly that many entries.
C14_AnyPositiveSize ==
    wpc # "new"
    => /\ batchSize =
            LastOf("WithBatchSize", {o \in Options(variant) : o.n > 0}, "n",
                   Len(opts), DefaultBatchSize)
       /\ (Sending /\ cause = "size") => Len(batch) = batchSize
       /\ wpc = "select" => Len(batch) < batchSize

\* C14: after construction the threshold is the n of the last
\* WithBatchSize(n) with a valid n (0 < n < 1000 in the first
\* implementation, 0 < n in the second), or 100 without one, and a size
\* flush sends exactly that many entries.
C14_ValidSize ==
    wpc # "new"
    => /\ batchSize =
            LastOf("WithBatchSize",
                   {o \in Options(variant) :
                      o.n > 0 /\ (variant = "auth" => o.n < BatchSizeLimit)},
                   "n", Len(opts), DefaultBatchSize)
       /\ (Sending /\ cause = "size") => Len(batch) = batchSize
       /\ wpc = "select" => Len(batch) < batchSize

\* a client of the first implementation built with WithBatchSize(1) and then
\* WithBatchSize(1000) flushes its first entry by size
C14_Witness ==
    /\ variant = "auth"
    /\ Len(opts) = 2
    /\ opts[1].name = "WithBatchSize" /\ opts[1].n = 1
    /\ opts[2].name = "WithBatchSize" /\ opts[2].n = BatchSizeLimit
    /\ batchSize = 1
    /\ cause = "size"
    /\ wpc = "post"
    /\ Len(batch) = 1

\* C20: NewLokiClient applies the options in call order and starts the
\* goroutine of run only after the last one: at every point each scalar
\* field holds the value of the last valid option applied so far (its
\* default without one), the labels are the maps of the labels options
\* merged key by key with the later value winning, and the goroutine
\* receives from the channel that c.buffer holds, which is the one the last
\* valid bufferSize option made.
C20_OptionsInOrder ==
    LET any  == Options(variant)
        pos  == {o \in any : o.n > 0}
        size == {o \in pos : variant = "auth" => o.n < BatchSizeLimit}
        lab  == Taken("WithLabels", any, applied)
    IN  /\ wpc = "new" => (rchan = -1 /\ wg = 0)
        /\ wpc # "new" => (applied = Len(opts) /\ rchan = c.chan /\ wg = 1)
        /\ c.useHTTPS = LastOf("WithHTTPS", any, "b", applied, FALSE)
        /\ c.username = LastOf("WithBasicAuth", any, "s1", applied, "")
        /\ c.password = LastOf("WithBasicAuth", any, "s2", applied, "")
        /\ c.bearer = LastOf("WithBearerToken", any, "s1", applied, "")
        /\ c.httpClient =
             LastOf("WithHttpClient", {o \in any : o.s1 # "nil"}, "s1",
                    applied, "default")
        /\ batchSize =
             LastOf("WithBatchSize", size, "n", applied, DefaultBatchSize)
        /\ c.period = LastOf("WithPeriod", pos, "n", applied, DefaultPeriod)
        /\ c.writeTimeout =
             LastOf("WithWriteTimeout", pos, "n", applied, DefaultWriteTimeout)
        /\ c.sendTimeout =
             LastOf("WithSendTimeout", pos, "n", applied, DefaultSendTimeout)
        /\ bufferSize =
             LastOf("WithBufferSize", pos, "n", applied, DefaultBufferSize)
        /\ c.chan = Cardinality(Taken("WithBufferSize", pos, applied))
        /\ DOMAIN c.labels = UNION {DOMAIN opts[k].m : k \in lab}
        /\ \A key \in DOMAIN c.labels :
              c.labels[key] =
                 opts[Last({k \in lab : key \in DOMAIN opts[k].m})].m[key]

\* a client built with two overlapping label maps, and one built with a
\* label map and a channel of its own whose goroutine has taken the entry
\* that Write queued
C20_Witness ==
    /\ Len(opts) = 2
    /\ opts[1].name = "WithLabels"
    /\ wpc = "select"
    /\ accepted # <<>>
    /\ batch = accepted
    /\ \/ /\ opts[2].name = "WithLabels"
          /\ DOMAIN c.labels = {"app", "job", "env"}
          /\ c.labels["app"] = opts[2].m["app"]
          /\ c.labels["app"] # opts[1].m["app"]
       \/ /\ opts[2].name = "WithBufferSize"
          /\ bufferSize = MaxBufferSize
          /\ c.chan = 1
          /\ rchan = 1

\* C21: a Write of a valid record that reaches its select with the channel
\* closed, or that waits in its select when the channel is closed, puts
\* nothing in the channel, writes no drop line and returns (0, nil); the
\* panic of the send does not escape.
C21_WriteAfterClose ==
    [][\A p \in Producers :
          /\ closed /\ pc[p] = "select" /\ pc'[p] = "idle"
             => /\ buffer' = buffer
                /\ accepted' = accepted
                /\ stderr' = stderr
                /\ ret' = Result(0, "nil")
                /\ ~panicked'
          /\ \A input \in ValidInputs :
                (closed /\ calls' = calls + 1 /\ Write(p, input))
                => /\ pc'[p] = "idle"
                   /\ buffer' = buffer
                   /\ accepted' = accepted
                   /\ stderr' = stderr
                   /\ ret' = Result(0, "nil")
                   /\ ~panicked']_vars

\* the channel was closed while full; the second Write has returned (0, nil)
\* and its entry is nowhere
C21_Witness ==
    /\ closed
    /\ bufferSize = 1
    /\ Len(buffer) = 1
    /\ accepted = buffer
    /\ calls = 2
    /\ \A p \in Producers : pc[p] = "idle"
    /\ ret = Result(0, "nil")
    /\ stderr.drop = 0
    /\ ~panicked

\* C22: the batch is bounded: in the select of run it holds fewer than
\* batchSize entries, a batch that sendBatch is sending (an attempt in
\* progress, made or to come) holds 1 to batchSize entries, and one flushed
\* by the size test holds exactly batchSize entries.
C22_BatchBounded ==
    /\ wpc = "select" => Len(batch) < batchSize
    /\ Sending => (1 <= Len(batch) /\ Len(batch) <= batchSize)
    /\ posts > 0 => handed # <<>>
    /\ (Sending /\ cause = "size") => Len(batch) = batchSize
    /\ (Sending /\ cause \in {"tick", "close"}) => Len(batch) < batchSize

\* the first attempt for a full batch of the largest size has failed
C22_Witness ==
    /\ batchSize = MaxBatchSize
    /\ wpc = "backoff"
    /\ cause = "size"
    /\ tries = 1
    /\ Len(batch) = batchSize
    /\ inflight = 0

\* C23: in a flush a sleep starts after an attempt exactly when the attempt
\* failed, the third one included, so that the sleeps of a flush are as
\* many as its failed attempts; a flush ends either at a successful attempt
\* or at the end of the third sleep, of 3 seconds plus the jitter, and it is
\* that step that writes the failure line and takes the aggregator back to
\* its select (or to its end, in the final flush).
C23_SleepAfterEveryFailure ==
    [][/\ \A resp \in Responses :
             Send(resp)
             => /\ (wpc' = "backoff")
                   <=> (resp.transport \/ resp.status < 200 \/ resp.status > 299)
                /\ wpc' = "backoff"
                   => /\ tries' = tries + 1
                      /\ sleep' >= SecondMs * tries'
                      /\ sleep' < SecondMs * tries' + JitterRange
       /\ (wpc # "backoff" /\ wpc' = "backoff") => wpc = "post"
       /\ (wpc = "backoff" /\ wpc' # "backoff")
          => IF tries < MaxAttempts
               THEN /\ wpc' = "send"
                    /\ stderr' = stderr
                    /\ batch' = batch
               ELSE /\ sleep >= SecondMs * MaxAttempts
                    /\ sleep < SecondMs * MaxAttempts + JitterRange
                    /\ stderr'.fail = stderr.fail + 1
                    /\ wpc' = IF cause = "close" THEN "done" ELSE "select"
       /\ (Sending /\ ~Sending')
          => \/ wpc = "post" /\ stderr' = stderr
             \/ wpc = "backoff" /\ tries = MaxAttempts
       /\ stderr'.fail # stderr.fail => wpc = "backoff"]_vars

\* the sleep after the third failed attempt is in progress, with jitter:
\* nothing is reported yet and no entry is taken
C23_Witness ==
    /\ variant = "auth"
    /\ wpc = "backoff"
    /\ tries = MaxAttempts
    /\ posts = MaxAttempts
    /\ sleep > SecondMs * MaxAttempts
    /\ stderr.fail = 0
    /\ buffer # <<>>

====
